---------------------------- MODULE Spec2Model ----------------------------
(***************************************************************************)
(* Model of dashboard/app.py: a Shiny Express dashboard over a healthcare  *)
(* expenditure table and a synthetic "live" feed.                          *)
(*                                                                         *)
(* Two parts of the program are modelled, each with its own specification: *)
(*   Spec       - the synthetic feed: the deque behind                     *)
(*                reactive_value_wrapper, the function                     *)
(*                reactive_health_data_combined and its four callers, the  *)
(*                invalidate_later timers and the tab selection.           *)
(*   FairSpec   - Spec with the fairness of the event loop.                *)
(*   LongSpec   - Spec without panel selections, followed for more timer   *)
(*                periods, so that the deque fills up and evicts.          *)
(*   FilterSpec - the start-up load of healthexp.csv, the four filter      *)
(*                inputs and the calc filtered_health_data.                *)
(*                                                                         *)
(* Money is counted in tenths of a dollar (round(x, 1) at app.py:181-182), *)
(* texts are sequences of one-character strings, and a table is the        *)
(* sequence of its rows.                                                   *)
(***************************************************************************)
EXTENDS Integers, Sequences, FiniteSets, TLC

VARIABLES
    file,         \* healthexp.csv as found on disk at start-up
    healthexp,    \* the module-level table loaded from it
    raised,       \* whether the load raised to its caller
    inputs,       \* input.selected_gender / selected_smoker / expenditure_range / age_range
    filtered,     \* value of the calc filtered_health_data
    shown,        \* what health_df, the scatterplot and the heatmap were given
    buffer,       \* the deque inside reactive_value_wrapper, oldest first
    now,          \* wall clock, in seconds since the process started
    due,          \* outputs whose invalidation waits for the event loop, first first
    armed,        \* outputs whose context holds a pending invalidate_later
                  \* timer, in the order the timers were set
    invalidated,  \* suspended (hidden) outputs that are invalidated
    tab,          \* selected panel of the navset "tabbed_graphs"
    lastCall,     \* what the latest call of reactive_health_data_combined returned
    seen,         \* per output: the table its latest call in this period gave it
    outputs,      \* per output: what it last rendered
    rendered,     \* outputs that executed since the last timer period began
    appended,     \* records appended since the last timer period began
    calls         \* calls of reactive_health_data_combined so far

filterVars == <<file, healthexp, raised, inputs, filtered, shown>>
feedVars == <<buffer, now, due, armed, invalidated, tab, lastCall, seen,
              outputs, rendered, appended, calls>>
vars == <<file, healthexp, raised, inputs, filtered, shown,
          buffer, now, due, armed, invalidated, tab, lastCall, seen,
          outputs, rendered, appended, calls>>

\* Python's None
None == [none |-> TRUE]

(***************************************************************************)
(* Program constants and the bounds of the model.                          *)
(***************************************************************************)
UPDATE_INTERVAL_SECS == 10
DEQUE_SIZE == 10

\* number of timer periods the clock is followed for
MaxTicks == 1
\* the same for a page on which the user selects no panel
MaxLongTicks == 3
\* longest healthexp.csv, in lines
MaxLines == 2

\* outcomes of round(random.uniform(100, 5000), 1), in tenths of a dollar
ExpVals == {12345}
SmokerVals == {"Yes", "No"}
GenderVals == {"Male", "Female"}

ValueBoxes == {"display_smoker_exp", "display_nonsmoker_exp"}
TrendCharts == {"smokers_trend_chart", "nonsmokers_trend_chart"}
Consumers == ValueBoxes \cup TrendCharts
\* the outputs in the order the page defines them
OutputOrder == <<"display_smoker_exp", "display_nonsmoker_exp",
                 "smokers_trend_chart", "nonsmokers_trend_chart">>
Tabs == {"Smokers Trend", "Non-Smokers Trend"}

\* the smoker status an output selects from the feed table
StatusOf(c) ==
    IF c \in {"display_smoker_exp", "smokers_trend_chart"} THEN "Yes" ELSE "No"

\* the panel of the navset a trend chart sits in
PanelOf(c) ==
    IF c = "smokers_trend_chart" THEN "Smokers Trend" ELSE "Non-Smokers Trend"

\* the value boxes are always on the page, a trend chart only in its panel
Visible(c, t) == c \in ValueBoxes \/ PanelOf(c) = t

(***************************************************************************)
(* Text formatting: f"${x:.2f}".                                           *)
(***************************************************************************)
DigitChar(d) == <<"0", "1", "2", "3", "4", "5", "6", "7", "8", "9">>[d + 1]

RECURSIVE Digits(_)
Digits(n) == IF n < 10 THEN <<DigitChar(n)>>
             ELSE Append(Digits(n \div 10), DigitChar(n % 10))

\* ":.1f" in the place of ":.2f"
Format1f(h) ==
    Digits(h \div 100) \o <<".", DigitChar((h % 100) \div 10)>>

\* ":.2f" of an amount given in hundredths
Format2f(h) ==
    Digits(h \div 100) \o <<".", DigitChar((h % 100) \div 10), DigitChar(h % 10)>>

(***************************************************************************)
(* The feed table and its consumers.                                       *)
(***************************************************************************)
Range(f) == {f[i] : i \in DOMAIN f}

\* pd.DataFrame(d) for a deque d of dictionaries: the columns are the keys of
\* the entries, so the table of an empty deque has no column
DataFrame(d) ==
    [columns |-> IF d = <<>> THEN <<>> ELSE <<"expenditure", "timestamp", "smoker">>,
     rows |-> d]

\* a raised exception, as the result of an expression
Raises(e) == [raises |-> e]

\* df[df['smoker'] == s]
SmokerRows(df, s) == SelectSeq(df.rows, LAMBDA r : r.smoker = s)

\* df[...]['expenditure'].sum(), in tenths
RECURSIVE SumExpenditure(_)
SumExpenditure(rows) ==
    IF rows = <<>> THEN 0
    ELSE rows[1].expenditure + SumExpenditure(Tail(rows))

\* body of display_smoker_exp / display_nonsmoker_exp for status s, given
\* the table df of the tuple returned by reactive_health_data_combined
DisplayExp(df, s) ==
    IF df # None
    THEN IF "smoker" \in Range(df.columns)
         THEN [text |-> <<"$">> \o Format2f(10 * SumExpenditure(SmokerRows(df, s)))]
         ELSE Raises("KeyError")
    ELSE [text |-> <<"$", "0", ".", "0", "0">>]

\* body of smokers_trend_chart / nonsmokers_trend_chart for status s: the
\* points of the line chart, or None when the table is empty
TrendChart(df, s) ==
    IF df.rows # <<>>
    THEN [points |-> [i \in 1..Len(SmokerRows(df, s)) |->
                        [x |-> SmokerRows(df, s)[i].timestamp,
                         y |-> SmokerRows(df, s)[i].expenditure]]]
    ELSE None

RenderOutput(c, df) ==
    IF c \in ValueBoxes THEN DisplayExp(df, StatusOf(c))
    ELSE TrendChart(df, StatusOf(c))

\* a deque without maxlen
DequeAppendUnbounded(d, x) == Append(d, x)

\* deque(maxlen=DEQUE_SIZE).append(x)
DequeAppend(d, x) ==
    IF Len(d) = DEQUE_SIZE THEN Append(Tail(d), x) ELSE Append(d, x)

\* the dictionary built at app.py:184
NewEntry(e1, e2, coin, sm, ts) ==
    [expenditure |-> IF coin = "Yes" THEN e1 ELSE e2,
     timestamp |-> ts,
     smoker |-> sm]

\* no timer is set
InvalidateLaterNever(timers, ctx, delay) == timers

\* reactive.invalidate_later(delay) called in context ctx: the context gets
\* a timer that invalidates it after the delay
InvalidateLater(timers, ctx, delay) ==
    IF ctx \in Range(timers) THEN timers ELSE Append(timers, ctx)

\* the table is built before the entry is appended
ReactiveHealthDataCombinedStale(ctx, timers, d, e1, e2, coin, sm, ts) ==
    LET new_entry == NewEntry(e1, e2, coin, sm, ts)
        deque_snapshot == DequeAppend(d, new_entry)
    IN [timers |-> InvalidateLater(timers, ctx, UPDATE_INTERVAL_SECS),
        deque_snapshot |-> deque_snapshot,
        df |-> DataFrame(d),
        new_entry |-> new_entry]

\* reactive_health_data_combined called in context ctx, on deque d, with the
\* four random draws and the clock reading ts.  timers and deque_snapshot
\* are its effects (the deque is appended in place and returned itself),
\* df and new_entry the rest of the returned tuple.
ReactiveHealthDataCombined(ctx, timers, d, e1, e2, coin, sm, ts) ==
    LET new_entry == NewEntry(e1, e2, coin, sm, ts)
        deque_snapshot == DequeAppend(d, new_entry)
    IN [timers |-> InvalidateLater(timers, ctx, UPDATE_INTERVAL_SECS),
        deque_snapshot |-> deque_snapshot,
        df |-> DataFrame(deque_snapshot),
        new_entry |-> new_entry]

(***************************************************************************)
(* The dataset: healthexp.csv and its load at start-up.                    *)
(***************************************************************************)
column_names == <<"age", "gender", "expenditure", "smoker", "region", "timestamp">>

\* a blank line of the file
Blank == <<>>

\* the data lines the files of the model are made of
Lines == {<<40, "Male", 1000, "Yes", "X", "T">>,
          <<18, "Female", 3000, "No", "X", "T">>,
          <<61, "Female", 499, "Yes", "X", "T">>}

RECURSIVE SeqsUpTo(_, _)
SeqsUpTo(S, n) ==
    IF n = 0 THEN {<<>>}
    ELSE SeqsUpTo(S, n - 1) \cup
         {Append(q, x) : q \in {r \in SeqsUpTo(S, n - 1) : Len(r) = n - 1}, x \in S}

\* the file is absent, or holds up to MaxLines lines.  Files of blank lines
\* only are left out: what read_csv makes of them is pandas' business and
\* not decided by app.py
Files ==
    {[exists |-> FALSE, lines |-> <<>>]} \cup
    {[exists |-> TRUE, lines |-> q] :
        q \in {r \in SeqsUpTo(Lines \cup {Blank}, MaxLines) :
                 r = <<>> \/ \E i \in 1..Len(r) : r[i] # Blank}}

\* os.path.exists
Exists(f) == f.exists

\* os.path.getsize, counted in lines: every line, a blank one too, takes at
\* least the byte of its line end
Getsize(f) == Len(f.lines)

\* pd.read_csv(..., names=names, skip_blank_lines=True): the names are given
\* to the fields of each non-blank line by position
ReadCsv(f, names) ==
    LET data == SelectSeq(f.lines, LAMBDA l : l # Blank)
    IN [columns |-> names,
        rows |-> [i \in 1..Len(data) |->
                    [n \in Range(names) |->
                        data[i][CHOOSE k \in 1..Len(names) : names[k] = n]]]]

\* the load without the test of the file: read_csv raises on a missing or
\* empty file and healthexp is left unbound
LoadHealthexpUnchecked(f) ==
    IF Exists(f) /\ Getsize(f) > 0
    THEN [healthexp |-> ReadCsv(f, column_names), raised |-> FALSE]
    ELSE [healthexp |-> None, raised |-> TRUE]

\* the module-level load of app.py:12-23
LoadHealthexp(f) ==
    IF Exists(f) /\ Getsize(f) > 0
    THEN [healthexp |-> ReadCsv(f, column_names), raised |-> FALSE]
    ELSE [healthexp |-> [columns |-> <<"age", "gender", "expenditure", "smoker",
                                       "region", "timestamp">>,
                         rows |-> <<>>],
          raised |-> FALSE]

(***************************************************************************)
(* The filter inputs and the filtered view.                                *)
(***************************************************************************)
\* positions the expenditure slider (0..5000) and the age slider (18..100)
\* are moved to
ExpGrid == {0, 500, 3000, 5000}
AgeGrid == {18, 25, 60, 100}
Ranges(G) == {<<lo, hi>> : lo \in G, hi \in G} \ {r \in G \X G : r[1] > r[2]}

\* the selections the sidebar starts with (app.py:37-58)
DefaultInputs ==
    [selected_gender |-> {"Male", "Female"},
     selected_smoker |-> {"Yes", "No"},
     expenditure_range |-> <<500, 3000>>,
     age_range |-> <<25, 60>>]

\* between(lo, hi, inclusive="neither")
BetweenExclusive(x, lo, hi) == lo < x /\ x < hi

\* Series.between(lo, hi), both ends inclusive
Between(x, lo, hi) == lo <= x /\ x <= hi

\* Series.isin(values)
Isin(x, values) == x \in values

\* a req that lets empty selections through
ReqNothing(args) == TRUE

\* req(...): every argument has to be truthy
Req(args) == \A i \in 1..Len(args) : args[i] # {}

\* the calc filtered_health_data
FilteredHealthData(data, in) ==
    IF ~Req(<<in.selected_gender, in.selected_smoker>>)
    THEN Raises("SilentException")
    ELSE [columns |-> data.columns,
          rows |-> SelectSeq(data.rows, LAMBDA r :
                      /\ Isin(r.gender, in.selected_gender)
                      /\ Isin(r.smoker, in.selected_smoker)
                      /\ Between(r.expenditure, in.expenditure_range[1],
                                 in.expenditure_range[2])
                      /\ Between(r.age, in.age_range[1], in.age_range[2]))]

\* health_df, scatterplot_with_regression and heatmap_age_vs_expenditure:
\* the data each of them puts on the page; a silent exception of the calc
\* leaves the three outputs without a value
RenderFiltered(view) ==
    IF view = Raises("SilentException")
    THEN [health_df |-> None,
          scatterplot_with_regression |-> None,
          heatmap_age_vs_expenditure |-> None]
    ELSE [health_df |-> [DataTable |-> view.rows],
          scatterplot_with_regression |->
              [points |-> [i \in 1..Len(view.rows) |->
                             [x |-> view.rows[i].age,
                              y |-> view.rows[i].expenditure,
                              color |-> view.rows[i].gender]]],
          heatmap_age_vs_expenditure |->
              [points |-> [i \in 1..Len(view.rows) |->
                             [x |-> view.rows[i].age,
                              y |-> view.rows[i].expenditure]]]]

\* the calc re-evaluates on the inputs in and its three outputs re-render
Flush(in) ==
    /\ filtered' = FilteredHealthData(healthexp, in)
    /\ shown' = RenderFiltered(FilteredHealthData(healthexp, in))

\* first rendering of the page
FirstFlush ==
    /\ shown = None
    /\ Flush(inputs)
    /\ UNCHANGED <<file, healthexp, raised, inputs>>
    /\ UNCHANGED feedVars

\* the user changes one input; the calc and its outputs follow
SetInput(name, value) ==
    /\ shown # None \/ filtered # None
    /\ inputs[name] # value
    /\ inputs' = [inputs EXCEPT ![name] = value]
    /\ Flush(inputs')
    /\ UNCHANGED <<file, healthexp, raised>>
    /\ UNCHANGED feedVars

SetSelectedGender == \E g \in SUBSET GenderVals : SetInput("selected_gender", g)
SetSelectedSmoker == \E g \in SUBSET SmokerVals : SetInput("selected_smoker", g)
SetExpenditureRange == \E r \in Ranges(ExpGrid) : SetInput("expenditure_range", r)
SetAgeRange == \E r \in Ranges(AgeGrid) : SetInput("age_range", r)

\* the state once app.py has run with file f on disk
LoadedWith(f) ==
    /\ file = f
    /\ healthexp = LoadHealthexp(f).healthexp
    /\ raised = LoadHealthexp(f).raised
    /\ inputs = DefaultInputs
    /\ filtered = None
    /\ shown = None

(***************************************************************************)
(* Feed actions.                                                           *)
(***************************************************************************)
\* one execution of output c
Execute(c) ==
    \E e1 \in ExpVals, e2 \in ExpVals, coin \in SmokerVals, sm \in SmokerVals :
        LET r == ReactiveHealthDataCombined(c, armed, buffer, e1, e2, coin, sm, now)
        IN /\ buffer' = r.deque_snapshot
           /\ armed' = r.timers
           /\ lastCall' = [deque_snapshot |-> r.deque_snapshot, df |-> r.df,
                           new_entry |-> r.new_entry]
           /\ seen' = [seen EXCEPT ![c] = r.df]
           /\ outputs' = [outputs EXCEPT ![c] = RenderOutput(c, r.df)]
           /\ rendered' = rendered \cup {c}
           /\ appended' = appended + 1
           /\ calls' = calls + 1

\* the event loop handles the next invalidation, that of output c, and
\* flushes: a visible output re-executes, a hidden one stays suspended
Invalidate(c) ==
    /\ due # <<>>
    /\ c = Head(due)
    /\ due' = Tail(due)
    /\ IF Visible(c, tab)
       THEN Execute(c) /\ UNCHANGED invalidated
       ELSE /\ invalidated' = invalidated \cup {c}
            /\ UNCHANGED <<buffer, armed, lastCall, seen, outputs, rendered,
                           appended, calls>>
    /\ UNCHANGED <<now, tab>>
    /\ UNCHANGED filterVars

\* the user selects panel t; the chart in it resumes and, if it was
\* invalidated while hidden, re-executes in the same flush
SelectTab(t) ==
    /\ t # tab
    /\ tab' = t
    /\ \E c \in TrendCharts :
         /\ PanelOf(c) = t
         /\ IF c \in invalidated
            THEN Execute(c) /\ invalidated' = invalidated \ {c}
            ELSE UNCHANGED <<buffer, armed, lastCall, seen, outputs, rendered,
                             appended, calls, invalidated>>
    /\ UNCHANGED <<now, due>>
    /\ UNCHANGED filterVars

\* UPDATE_INTERVAL_SECS pass: the armed timers expire, in the order they
\* were set, and each invalidates its context
Tick(maxTicks) ==
    /\ due = <<>>
    /\ armed # <<>>
    /\ now < maxTicks * UPDATE_INTERVAL_SECS
    /\ now' = now + UPDATE_INTERVAL_SECS
    /\ due' = armed
    /\ armed' = <<>>
    /\ rendered' = {}
    /\ appended' = 0
    /\ seen' = [c \in Consumers |-> None]
    /\ UNCHANGED <<buffer, invalidated, tab, lastCall, outputs, calls>>
    /\ UNCHANGED filterVars

\* the start-up state of the feed: an empty deque, no timer, every output
\* waiting for its first execution, the first panel selected
FeedInit ==
    /\ buffer = <<>>
    /\ now = 0
    /\ due = OutputOrder
    /\ armed = <<>>
    /\ invalidated = {}
    /\ tab = "Smokers Trend"
    /\ lastCall = None
    /\ seen = [c \in Consumers |-> None]
    /\ outputs = [c \in Consumers |-> None]
    /\ rendered = {}
    /\ appended = 0
    /\ calls = 0

\* the file of the scenario of one row
ScenarioFile == [exists |-> TRUE, lines |-> <<<<40, "Male", 1000, "Yes", "X", "T">>>>]

Init ==
    /\ FeedInit
    /\ LoadedWith(ScenarioFile)

Next ==
    \/ \E c \in Consumers : Invalidate(c)
    \/ \E t \in Tabs : SelectTab(t)
    \/ Tick(MaxTicks)

Spec == Init /\ [][Next]_vars

\* the page left alone: the timers run and no panel is selected
LongNext ==
    \/ \E c \in Consumers : Invalidate(c)
    \/ Tick(MaxLongTicks)

LongSpec == Init /\ [][LongNext]_vars

FilterInit ==
    /\ FeedInit
    /\ \E f \in Files : LoadedWith(f)

FilterNext ==
    \/ FirstFlush
    \/ SetSelectedGender
    \/ SetSelectedSmoker
    \/ SetExpenditureRange
    \/ SetAgeRange

FilterSpec == FilterInit /\ [][FilterNext]_vars

\* the event loop runs every callback that is ready and the clock goes on
FairSpec ==
    /\ Spec
    /\ WF_vars(Tick(MaxTicks))
    /\ \A c \in Consumers : WF_vars(Invalidate(c))

(***************************************************************************)
(* Vocabulary of the properties.                                           *)
(***************************************************************************)
IsDigit(ch) == ch \in {"0", "1", "2", "3", "4", "5", "6", "7", "8", "9"}

DigitVal(ch) == CHOOSE d \in 0..9 : DigitChar(d) = ch

\* "$", digits, ".", two digits
IsCurrencyText(t) ==
    /\ Len(t) >= 5
    /\ t[1] = "$"
    /\ t[Len(t) - 2] = "."
    /\ \A i \in 2..Len(t) : i # Len(t) - 2 => IsDigit(t[i])

\* the number a sequence of digits writes
RECURSIVE NumberOf(_)
NumberOf(ds) ==
    IF ds = <<>> THEN 0
    ELSE 10 * NumberOf(SubSeq(ds, 1, Len(ds) - 1)) + DigitVal(ds[Len(ds)])

\* the amount a currency text shows, in hundredths
AmountOf(t) ==
    100 * NumberOf(SubSeq(t, 2, Len(t) - 3)) + NumberOf(SubSeq(t, Len(t) - 1, Len(t)))

\* total expenditure, in tenths, of the records of d with smoker status s
RECURSIVE TotalOf(_, _, _)
TotalOf(d, s, n) ==
    IF n = 0 THEN 0
    ELSE TotalOf(d, s, n - 1) + (IF d[n].smoker = s THEN d[n].expenditure ELSE 0)

\* output c executed in the step
Executed(c) == c \in rendered' /\ c \notin rendered

IsTable(v) == "rows" \in DOMAIN v

\* number of occurrences of row r in the sequence q
Count(q, r) == Cardinality({i \in DOMAIN q : q[i] = r})

\* row r passes the four filters in
Passes(r, in) ==
    /\ r.gender \in in.selected_gender
    /\ r.smoker \in in.selected_smoker
    /\ in.expenditure_range[1] <= r.expenditure
    /\ r.expenditure <= in.expenditure_range[2]
    /\ in.age_range[1] <= r.age
    /\ r.age <= in.age_range[2]

\* table v holds exactly the rows of data that pass the filters in
ExactlyPassing(v, data, in) ==
    /\ IsTable(v)
    /\ \A i \in DOMAIN v.rows :
         /\ Passes(v.rows[i], in)
         /\ Count(data.rows, v.rows[i]) = Count(v.rows, v.rows[i])
    /\ \A i \in DOMAIN data.rows :
         Passes(data.rows[i], in) => Count(v.rows, data.rows[i]) > 0

EmptySelection == inputs.selected_gender = {} \/ inputs.selected_smoker = {}

(***************************************************************************)
(* Properties.                                                             *)
(***************************************************************************)
\* C1: the deque never holds more than DEQUE_SIZE records, and a call made
\* when it holds DEQUE_SIZE drops the oldest record, keeps the others in
\* their order and puts the new record last.
C1_FifoBuffer ==
    /\ [](Len(buffer) <= DEQUE_SIZE)
    /\ [][(calls' = calls + 1 /\ Len(buffer) = DEQUE_SIZE) =>
            /\ Len(buffer') = DEQUE_SIZE
            /\ \A i \in 1..(DEQUE_SIZE - 1) : buffer'[i] = buffer[i + 1]
            /\ buffer'[DEQUE_SIZE] = lastCall'.new_entry]_vars

C1_Witness == calls > DEQUE_SIZE /\ Len(buffer) = DEQUE_SIZE

\* C2: a timer period appends exactly one record, however many of the four
\* consumers execute in it.
C2_OneAppendPerTick ==
    /\ appended <= 1
    /\ due = <<>> => appended = 1

\* C3: the consumers that execute in one timer period are given the same
\* table.
C3_SameSnapshot ==
    \A c1 \in rendered, c2 \in rendered : seen[c1] = seen[c2]

\* C4: the execution of a renderer leaves the dataset, the filter inputs and
\* the deque as they are.
C4_RenderersReadOnly ==
    [][(\E c \in Consumers : Executed(c)) =>
         /\ buffer' = buffer
         /\ healthexp' = healthexp
         /\ inputs' = inputs]_vars

\* C5 as stated: for every dataset and every state of the filters the calc
\* returns exactly the rows that pass the four filters.
C5_ExactlyPassingAlways ==
    filtered # None => ExactlyPassing(filtered, healthexp, inputs)

\* C5 amended: with both selections non-empty the calc returns exactly the
\* rows that pass the four filters, bounds included; with an empty selection
\* it returns no table.
C5_ExactlyPassingWhenSelected ==
    filtered # None =>
        IF EmptySelection THEN ~IsTable(filtered)
        ELSE ExactlyPassing(filtered, healthexp, inputs)

\* some rows pass and some do not, and one that passes sits on a bound
C5_Witness ==
    /\ filtered # None
    /\ IsTable(filtered)
    /\ filtered.rows # <<>>
    /\ Len(filtered.rows) < Len(healthexp.rows)
    /\ \E i \in DOMAIN filtered.rows :
         filtered.rows[i].expenditure = inputs.expenditure_range[2]

\* C6 as stated: with an empty selection the calc returns a table of zero
\* rows.
C6_EmptyTable ==
    (filtered # None /\ EmptySelection) =>
        (IsTable(filtered) /\ filtered.rows = <<>>)

\* C6 amended: with an empty selection the calc returns no table, req stops
\* it with a silent exception, and its three outputs are left without a
\* value; no row is shown.
C6_NoResult ==
    (filtered # None /\ EmptySelection) =>
        /\ filtered = Raises("SilentException")
        /\ \A o \in DOMAIN shown : shown[o] = None

C6_Witness ==
    /\ filtered # None
    /\ inputs.selected_gender = {}
    /\ healthexp.rows # <<>>

\* C7: the text of a value box is "$" and an amount with two decimals; when
\* the box executes, the amount is the total expenditure of the records of
\* its smoker status in the deque, "$0.00" when there is none.
C7_ValueBoxText ==
    /\ [](\A c \in ValueBoxes :
            outputs[c] # None =>
                ("text" \in DOMAIN outputs[c] /\ IsCurrencyText(outputs[c].text)))
    /\ [][\A c \in ValueBoxes :
            Executed(c) =>
                /\ AmountOf(outputs'[c].text) =
                       10 * TotalOf(buffer', StatusOf(c), Len(buffer'))
                /\ TotalOf(buffer', StatusOf(c), Len(buffer')) = 0 =>
                       outputs'[c].text = <<"$", "0", ".", "0", "0">>]_vars

\* one box shows "$0.00" and the other an amount
C7_Witness ==
    /\ outputs["display_smoker_exp"] = [text |-> <<"$", "0", ".", "0", "0">>]
    /\ outputs["display_nonsmoker_exp"] # None
    /\ outputs["display_nonsmoker_exp"] # [text |-> <<"$", "0", ".", "0", "0">>]

\* C8: a missing or zero-size file gives a dataset of zero rows and the six
\* columns, nothing is raised, and the dataset never changes afterwards.
C8_EmptyDataset ==
    /\ []((~file.exists \/ file.lines = <<>>) =>
            /\ healthexp = [columns |-> <<"age", "gender", "expenditure",
                                          "smoker", "region", "timestamp">>,
                            rows |-> <<>>]
            /\ ~raised)
    /\ [][healthexp' = healthexp]_vars

\* a zero-size file, and the filters have been used
C8_Witness ==
    /\ file.exists
    /\ file.lines = <<>>
    /\ filtered # None
    /\ inputs # DefaultInputs

\* C9: the table a call returns has the record made by that call as its last
\* row and holds the records of the deque at the return.
C9_TableAfterAppend ==
    lastCall # None =>
        /\ lastCall.df.rows # <<>>
        /\ lastCall.df.rows[Len(lastCall.df.rows)] = lastCall.new_entry
        /\ lastCall.df.rows = buffer

\* a call that evicted
C9_Witness ==
    /\ lastCall # None
    /\ calls > DEQUE_SIZE
    /\ Len(lastCall.df.rows) = DEQUE_SIZE

=============================================================================
